---- MODULE Spec2Model ----
(***************************************************************************)
(* Validation pipeline and concurrent notification dispatcher of the steel *)
(* and flight automation packages.                                         *)
(*                                                                         *)
(*   steel : main_steel.main -> SteelDataValidator.validate_steel_orders   *)
(*           -> EmailService.send_order_confirmations                      *)
(*           (worker: EmailService.send_single_email)                      *)
(*   flight: main_optimized -> EmailConfirmationService                    *)
(*           .send_confirmations_optimized                                 *)
(*           (worker: _send_single_confirmation_optimized under tenacity)  *)
(*                                                                         *)
(* The main thread and the pool's worker threads interleave; the transport *)
(* (simulated SMTP) fails or succeeds nondeterministically.  Timestamps    *)
(* and log lines are left out: no decision of the code reads them.         *)
(***************************************************************************)
EXTENDS Integers, Sequences, FiniteSets, TLC

\* ------------------------------------------------------------------ bounds
MaxRecords == 3     \* longest batch handed to an entry point under Spec
MaxFaults == 3      \* transport failures the environment injects in one run
PoolLoad == 6       \* batch length under SpecPool (more tasks than workers)
PoolFaults == 1     \* transport failures injected under SpecPool
FairRecords == 2    \* longest batch under SpecFair
ValRecords == 2     \* longest frame a validator is run on under SpecValidation
MaxValidated == 4   \* records one validator instance counts under SpecValidation
CleanRecords == 3   \* longest raw frame under SpecCleaning and SpecPipeline
CallRecords == 2    \* longest frame of one call under SpecCalls
CallFaults == 1     \* transport failures injected under SpecCalls
MaxCounted == 2     \* emails counted before the last call under SpecCalls
FileRecords == 2    \* longest reservations file under SpecProcessor
MaxTotalPrice == 2200   \* largest total price, in dollars, under SpecPricing

\* ------------------------------------------------------- program constants
max_retries == 3          \* EmailService.send_single_email
max_workers == 5          \* ThreadPoolExecutor(max_workers=5) / self.max_workers
stop_after_attempt == 3   \* tenacity decorator of the flight senders

NaN == "NaN"              \* pandas missing value
None == "None"            \* Python None

\* ------------------------------------------------------------------ inputs
\* A row of the data frame, reduced to what validation and dispatch read:
\*   ContactEmail : the destination column (ContactEmail / Email)
\*   others       : error messages of the rule groups other than contact
\*   printable    : whether the order-confirmation template can be formatted
\*                  with the row's values
GoodEmail == "ann@steel.example"

Deliverable == [ContactEmail |-> GoodEmail, others |-> <<>>, printable |-> TRUE]

Kinds ==
    { Deliverable,
      [ContactEmail |-> "", others |-> <<>>, printable |-> TRUE],
      [ContactEmail |-> NaN, others |-> <<>>, printable |-> TRUE],
      [ContactEmail |-> "not-an-address", others |-> <<>>, printable |-> TRUE],
      [ContactEmail |-> GoodEmail, others |-> <<"Invalid steel grade: X1">>,
       printable |-> TRUE],
      [ContactEmail |-> GoodEmail, others |-> <<>>, printable |-> FALSE] }

Batches(n) == UNION { [1..k -> Kinds] : k \in 0..n }

\* Batches of PoolLoad rows: all deliverable but the first, which is
\* deliverable, without an address, or not printable.
PoolBatches ==
    { [i \in 1..PoolLoad |-> IF i = 1 THEN k ELSE Deliverable] :
        k \in { kind \in Kinds : /\ kind.others = <<>>
                                  /\ kind.ContactEmail \in {GoodEmail, NaN} } }

\* ------------------------------------------------------------------- state
VARIABLES
    entry,             \* the entry point that was called
    data,              \* the cleaned frame handed to the entry point
    pc,                \* position of the main thread
    todo,              \* rows the running loop of the main thread has left
    valid_orders,      \* validate_steel_orders: valid_orders
    validation_errors, \* SteelDataValidator.validation_errors
    validation_stats,  \* SteelDataValidator.validation_stats
    orders_data,       \* the frame the dispatcher was called with
    st,                \* per row of orders_data: state of its task
    retry_count,       \* per task: retry_count / tenacity attempt_number
    attempts,          \* per task: transport invocations made so far
    future,            \* per task: the worker's result dict or its exception
    collected,         \* futures as_completed has yielded
    results,           \* the dispatcher's results list
    email_stats,       \* EmailService.email_stats
    faults,            \* transport failures the environment can still inject
    data_clean,        \* clean_data_optimized: the frame it returned
    processing_stats,  \* SteelDataProcessor.processing_stats
    file,              \* the CSV file load_data is given
    call_count,        \* pd.read_csv calls of the latest load_data call
    processed_records  \* process_reservations: processed_records

vars == <<entry, data, pc, todo, valid_orders, validation_errors,
          validation_stats, orders_data, st, retry_count, attempts, future,
          collected, results, email_stats, faults, data_clean,
          processing_stats, file, call_count, processed_records>>

loadVars == <<file, call_count, processed_records>>
cleanVars == <<data_clean, processing_stats, loadVars>>

valVars == <<valid_orders, validation_errors, validation_stats>>
taskVars == <<st, retry_count, attempts, future>>

Steel == entry \in {"main_steel", "send_order_confirmations"}
Flight == entry = "main_optimized"

Rows == 1..Len(orders_data.rows)
Slots == 1..(IF MaxRecords > PoolLoad THEN MaxRecords ELSE PoolLoad)

\* ----------------------------------------------------------------- helpers
isna(v) == v = NaN \/ v = None

\* re.match(email_pattern, email)
MatchesEmailPattern(email) == email = GoodEmail

\* SteelDataValidator.validate_contact_info, phone left out (always allowed)
validate_contact_info(email) ==
    IF isna(email) \/ email = ""
    THEN <<"Email address is required">>
    ELSE IF ~MatchesEmailPattern(email)
         THEN <<"Invalid email format: not-an-address">>
         ELSE <<>>

\* ------------------------------------------------- cells of a data frame
\* A cell of a text column holds a string, NaN, None, or a number that came
\* in where text was expected; that number is written NumberCell.
NumberCell == "<int 36>"

\* isinstance(v, str)
isinstance_str(v) == ~isna(v) /\ v # NumberCell

\* bool(v): NaN and a non-zero number are true, None and '' are false
truthy(v) == v # None /\ v # ""

\* f"{v}" of a text cell
format(v) == IF v = NaN THEN "nan" ELSE v

\* A number is an integer; NaN is written as an integer no column holds,
\* and so is the outcome of a conversion or comparison that met text.
NaNCell == -999999
TextCell == -999998

\* A cell of a numeric column (prices, dimensions, fares) holds a string
\* or a float, NaN being a float.
Str(s) == [str |-> s]
Float(x) == [float |-> x]

\* isinstance(cell, str), for a cell of a numeric column
is_str(cell) == "str" \in DOMAIN cell

\* the number the validator's comparisons read in a cell; a comparison of
\* a string with a number raises TypeError, whatever the string
num(cell) == IF is_str(cell) THEN TextCell ELSE cell.float

\* s.replace('$', ''), on the price texts the frames use
replace_dollar(s) ==
    IF s = "$628" THEN "628"
    ELSE IF s = "$1,200" THEN "1,200"
    ELSE s

\* s.replace(',', '')
replace_comma(s) ==
    IF s = "1,200" THEN "1200"
    ELSE IF s = "$1,200" THEN "$1200"
    ELSE s

\* float(s): the number, or TextCell where float raises ValueError
float(s) ==
    IF s = "628" THEN 628
    ELSE IF s = "1200" THEN 1200
    ELSE IF s = "1000" THEN 1000
    ELSE IF s = "0" THEN 0
    ELSE TextCell

\* not pd.isna(x) and x > 0, for a cell that is not text
positive(x) == x # NaNCell /\ x > 0

\* "; ".join(errors)
RECURSIVE join(_)
join(errors) ==
    IF Len(errors) = 1 THEN errors[1]
    ELSE errors[1] \o "; " \o join(Tail(errors))

\* if errors: return False, "; ".join(errors) / return True, ""
\* A group's outcome is kept as the list the caller appends to `errors`:
\* empty when the group passed, else the one joined message.
outcome(errors) == IF errors = <<>> THEN <<>> ELSE <<join(errors)>>

\* The checks of a try block, one after the other: a check whose cell is
\* text raises TypeError on its comparison, the except clause appends
\* `message` and the checks after it (and `rest`) are not made.
RECURSIVE try(_, _, _, _)
try(checks, i, rest, message) ==
    IF i > Len(checks) THEN rest
    ELSE IF checks[i].cell = TextCell THEN <<message>>
         ELSE checks[i].errors \o try(checks, i + 1, rest, message)

\* ------------------------------------ SteelDataValidator: the rule groups
valid_steel_grades ==
    {"A36", "A572-50", "A992", "A514", "A588", "A242", "A709-50", "S355",
     "S275", "S235", "S420", "S460", "Q235", "Q345", "304SS", "316SS",
     "409SS", "430SS", "201SS"}

valid_steel_types ==
    {"Hot Rolled", "Cold Rolled", "Galvanized", "Stainless Steel",
     "Carbon Steel", "Alloy Steel", "Tool Steel", "Spring Steel"}

valid_production_lines ==
    {"Line-A1", "Line-A2", "Line-B1", "Line-B2", "Line-C1", "Line-C2",
     "Line-D1", "Line-D2", "Line-E1", "Line-E2"}

valid_statuses ==
    {"Pending", "In Production", "Quality Check", "Ready", "Shipped",
     "Delivered", "Cancelled", "Hold", "Rework Required"}

valid_warehouses ==
    {"WH-North", "WH-South", "WH-East", "WH-West", "WH-Central", "WH-Export",
     "WH-Domestic", "WH-Reserve"}

valid_quality_grades == {"A", "B", "C", "Reject", "Rework"}

\* re.match(r'^SO-\d{4}-\d{4}$', order_id), on the ids the batches use
MatchesOrderIdPattern(order_id) == order_id \in {"SO-2024-0001", "SO-2024-0002"}

validate_order_id(order_id) ==
    IF isna(order_id) \/ ~isinstance_str(order_id)
    THEN <<"Order ID is missing or not a string">>
    ELSE IF ~MatchesOrderIdPattern(order_id)
         THEN <<"Invalid Order ID format: " \o order_id
                  \o ". Expected: SO-YYYY-NNNN">>
         ELSE <<>>

\* re.match(r'^B-\d{6}$', batch_id)
MatchesBatchIdPattern(batch_id) == batch_id = "B-000001"

validate_batch_id(batch_id) ==
    IF isna(batch_id) \/ ~isinstance_str(batch_id)
    THEN <<"Batch ID is missing or not a string">>
    ELSE IF ~MatchesBatchIdPattern(batch_id)
         THEN <<"Invalid Batch ID format: " \o batch_id
                  \o ". Expected: B-NNNNNN">>
         ELSE <<>>

\* grade.endswith('SS')
endswith_SS(grade) == grade \in {"304SS", "316SS", "409SS", "430SS", "201SS"}

\* validate_steel_specifications raises AttributeError: `if grade and
\* steel_type:` lets a NaN or a number through to grade.endswith('SS').
specifications_raise(grade, steel_type) ==
    truthy(grade) /\ truthy(steel_type) /\ ~isinstance_str(grade)

\* validate_steel_specifications, when it does not raise
validate_steel_specifications(grade, steel_type) ==
    outcome(
        (IF isna(grade) \/ grade \notin valid_steel_grades
         THEN <<"Invalid steel grade: " \o format(grade)>> ELSE <<>>)
     \o (IF isna(steel_type) \/ steel_type \notin valid_steel_types
         THEN <<"Invalid steel type: " \o format(steel_type)>> ELSE <<>>)
     \o (IF truthy(grade) /\ truthy(steel_type)
         THEN (IF endswith_SS(grade) /\ steel_type # "Stainless Steel"
               THEN <<"Steel grade " \o grade
                        \o " should be Stainless Steel type, not "
                        \o format(steel_type)>>
               ELSE <<>>)
           \o (IF grade \in {"A36", "A572-50", "A992"}
                  /\ steel_type = "Stainless Steel"
               THEN <<"Carbon steel grade " \o grade
                        \o " cannot be Stainless Steel type">>
               ELSE <<>>)
         ELSE <<>>))

\* (thickness/1000) * (width/1000) * (length/1000) * 7850, in grams;
\* dimensions are whole millimetres, weights whole kilograms, and the
\* quotients are exact for the dimensions the batches use.
calculated_weight(thickness, width, length) ==
    (((thickness * width * length) \div 1000) * 785) \div 100

abs(x) == IF x < 0 THEN 0 - x ELSE x

\* abs(weight - calculated_weight) / calculated_weight > 0.10
weight_differs(weight, calculated) ==
    10 * abs(weight * 1000 - calculated) > calculated

\* if all(not pd.isna(x) and x > 0 for x in [thickness, width, length,
\* weight]): the weight cross-check is made
weight_cross_checked(thickness, width, length, weight) ==
    positive(thickness) /\ positive(width) /\ positive(length)
      /\ positive(weight)

validate_dimensions(thickness, width, length, weight) ==
    outcome(try(
        << [cell |-> thickness,
            errors |-> IF thickness = NaNCell \/ thickness <= 0
                       THEN <<"Thickness must be positive">>
                       ELSE IF ~(1 <= thickness /\ thickness <= 300)
                            THEN <<"Thickness outside valid range (0.1-300mm)">>
                            ELSE <<>>],
           [cell |-> width,
            errors |-> IF width = NaNCell \/ width <= 0
                       THEN <<"Width must be positive">>
                       ELSE IF ~(100 <= width /\ width <= 5000)
                            THEN <<"Width outside valid range (100-5000mm)">>
                            ELSE <<>>],
           [cell |-> length,
            errors |-> IF length = NaNCell \/ length <= 0
                       THEN <<"Length must be positive">>
                       ELSE IF ~(6000 <= length /\ length <= 25000)
                            THEN <<"Length outside valid range (6000-25000mm)">>
                            ELSE <<>>],
           [cell |-> weight,
            errors |-> IF weight = NaNCell \/ weight <= 0
                       THEN <<"Weight must be positive">>
                       ELSE IF weight > 50000
                            THEN <<"Weight exceeds maximum (50,000kg)">>
                            ELSE <<>>] >>,
        1,
        IF weight_cross_checked(thickness, width, length, weight)
           /\ weight_differs(weight,
                             calculated_weight(thickness, width, length))
        THEN <<"Weight differs significantly from calculated">>
        ELSE <<>>,
        "Invalid dimension data types"))

\* (weight / 1000) * unit_price, in thousandths of a dollar
calculated_total(weight, unit_price) == weight * unit_price

\* The orders <<unit_price, total_price, weight>> of the frames whose
\* deviation is exactly 5 % and for which the quotient, computed in doubles
\* as the code computes it, comes out above the double 0.05:
\* (275 / 1000) * 800 is 220.00000000000003 and abs(209 - that) / that is
\* 0.05000000000000012.  For every other order of the frames the doubles
\* compare as the exact values do.
\* abs(total_price - calculated_total) / calculated_total > 0.05
price_differs(unit_price, total_price, weight) ==
    LET calculated == calculated_total(weight, unit_price)
        deviation == 20 * abs(total_price * 1000 - calculated)
    IN \/ deviation > calculated
       \/ /\ deviation = calculated
          /\ <<unit_price, total_price, weight>> = <<800, 209, 275>>

pricing_cross_checked_for_any_weight(unit_price, total_price, weight) ==
    positive(unit_price) /\ positive(total_price)

\* if all(not pd.isna(x) and x > 0 for x in [unit_price, total_price,
\* weight]): the pricing cross-check is made
pricing_cross_checked(unit_price, total_price, weight) ==
    positive(unit_price) /\ positive(total_price) /\ positive(weight)

\* The cross-check's all(...) reads weight only after unit_price and
\* total_price passed; a text weight raises there.
validate_pricing(unit_price, total_price, weight) ==
    outcome(try(
        << [cell |-> unit_price,
            errors |-> IF unit_price = NaNCell \/ unit_price <= 0
                       THEN <<"Unit price must be positive">>
                       ELSE IF unit_price > 10000
                            THEN <<"Unit price exceeds maximum ($10,000/ton)">>
                            ELSE <<>>],
           [cell |-> total_price,
            errors |-> IF total_price = NaNCell \/ total_price <= 0
                       THEN <<"Total price must be positive">>
                       ELSE IF total_price > 1000000
                            THEN <<"Total price exceeds maximum ($1,000,000)">>
                            ELSE <<>>] >>,
        1,
        IF positive(unit_price) /\ positive(total_price)
        THEN IF weight = TextCell THEN <<"Invalid pricing data types">>
             ELSE IF pricing_cross_checked(unit_price, total_price, weight)
                     /\ price_differs(unit_price, total_price, weight)
                  THEN <<"Total price differs from calculated">>
                  ELSE <<>>
        ELSE <<>>,
        "Invalid pricing data types"))

validate_production_info(production_line, warehouse, quality_grade, status) ==
    outcome(
        (IF isna(production_line)
            \/ production_line \notin valid_production_lines
         THEN <<"Invalid production line: " \o format(production_line)>>
         ELSE <<>>)
     \o (IF isna(warehouse) \/ warehouse \notin valid_warehouses
         THEN <<"Invalid warehouse: " \o format(warehouse)>> ELSE <<>>)
     \o (IF isna(quality_grade) \/ quality_grade \notin valid_quality_grades
         THEN <<"Invalid quality grade: " \o format(quality_grade)>>
         ELSE <<>>)
     \o (IF isna(status) \/ status \notin valid_statuses
         THEN <<"Invalid status: " \o format(status)>> ELSE <<>>)
     \o (IF quality_grade = "Reject"
            /\ status \notin {"Cancelled", "Rework Required"}
         THEN <<"Rejected quality items must be Cancelled or require Rework">>
         ELSE <<>>)
     \o (IF status = "Shipped" /\ quality_grade \in {"Reject", "Rework"}
         THEN <<"Cannot ship rejected or rework items">> ELSE <<>>))

\* a comparison of two parsed dates: False when either is NaT
before(a, b) == a # NaNCell /\ b # NaNCell /\ a < b

\* (b - a).days > n: False when either is NaT
days_exceed(a, b, n) == a # NaNCell /\ b # NaNCell /\ b - a > n

\* Dates are day numbers counted from datetime.now(); a missing date parses
\* to NaT, text that is no date makes pd.to_datetime raise ValueError.
validate_dates(order_date, production_date, delivery_date) ==
    outcome(
        IF TextCell \in {order_date, production_date, delivery_date}
        THEN <<"Invalid date format">>
        ELSE (IF before(production_date, order_date)
              THEN <<"Production date cannot be before order date">>
              ELSE <<>>)
          \o (IF before(delivery_date, production_date)
              THEN <<"Delivery date cannot be before production date">>
              ELSE <<>>)
          \o (IF days_exceed(order_date, production_date, 30)
              THEN <<"Production lead time exceeds 30 days">> ELSE <<>>)
          \o (IF days_exceed(production_date, delivery_date, 60)
              THEN <<"Delivery lead time exceeds 60 days">> ELSE <<>>)
          \o (IF delivery_date # NaNCell /\ delivery_date > 365
              THEN <<"Delivery date too far in future (>1 year)">>
              ELSE <<>>))

\* validate_contact_info raises TypeError: re.match on an email that is
\* neither missing, nor '', nor a string.
contact_info_raises(email) ==
    ~isna(email) /\ email # "" /\ ~isinstance_str(email)

\* The groups before contact, in the order validate_single_order calls
\* them.  A row of Kinds carries their outcome in `others`; a full order is
\* evaluated column by column.
groups_before_contact(order) ==
    IF "others" \in DOMAIN order THEN order.others
    ELSE validate_order_id(order.OrderID)
      \o validate_batch_id(order.BatchID)
      \o validate_steel_specifications(order.SteelGrade, order.SteelType)
      \o validate_dimensions(num(order.Thickness), num(order.Width),
                             num(order.Length), num(order.Weight))
      \o validate_pricing(num(order.UnitPrice), num(order.TotalPrice),
                          num(order.Weight))
      \o validate_production_info(order.ProductionLine, order.Warehouse,
                                  order.QualityGrade, order.Status)
      \o validate_dates(order.OrderDate, order.ProductionDate,
                        order.DeliveryDate)

\* validate_single_order has no try block of its own: what a group raises
\* leaves it as an exception.
validate_single_order_raises(order) ==
    \/ /\ "others" \notin DOMAIN order
       /\ specifications_raise(order.SteelGrade, order.SteelType)
    \/ contact_info_raises(order.ContactEmail)

validate_single_order_short_circuit(order) ==
    IF groups_before_contact(order) # <<>>
    THEN <<Head(groups_before_contact(order))>>
    ELSE validate_contact_info(order.ContactEmail)

\* SteelDataValidator.validate_single_order, when no group raises: the groups
\* are evaluated in order and the messages of the failing ones appended;
\* contact is the last group.
validate_single_order(order) ==
    groups_before_contact(order) \o validate_contact_info(order.ContactEmail)

\* ------------------------------------------ DataValidator (reservations)
valid_airports ==
    {"LAX", "JFK", "ORD", "DFW", "DEN", "ATL", "SFO", "SEA", "LAS", "MCO",
     "EWR", "CLT", "PHX", "IAH", "MIA", "BOS", "MSP", "FLL", "DTW", "PHL",
     "LGA", "BWI", "MDW", "TPA", "IAD", "SAN", "HNL", "PDX", "STL", "AUS"}

reservation_statuses ==
    {"Confirmed", "Cancelled", "Pending", "Checked-in", "Completed"}

\* a == b in Python: NaN is not equal to itself
py_eq(a, b) == a = b /\ a # NaN

\* re.match(r'^[A-Z0-9]{6}$', str(pnr)), on the PNRs the frames use
MatchesPnrPattern(pnr) == pnr \in {"ABC123", "XYZ789"}

validate_pnr(pnr) == ~isna(pnr) /\ MatchesPnrPattern(pnr)

\* len(str(name).strip()) >= 2; the names the frames use carry no blanks
\* at their ends
validate_passenger_name(name) == ~isna(name) /\ Len(name) >= 2

validate_airport_code(code) == ~isna(code) /\ code \in valid_airports

\* _validate_fare: a string is stripped of '$' and ',' and converted, a
\* ValueError gives False
validate_fare(fare) ==
    IF ~is_str(fare) /\ fare.float = NaNCell THEN FALSE
    ELSE LET fare_value == IF is_str(fare)
                           THEN float(replace_comma(replace_dollar(fare.str)))
                           ELSE fare.float
         IN fare_value # TextCell /\ fare_value > 0

validate_status(status) == ~isna(status) /\ status \in reservation_statuses

validate_email(email) == ~isna(email) /\ MatchesEmailPattern(email)

\* the dict _validate_single_record appends (its 'value' echoes the cell)
FieldError(index, field, error) ==
    [row |-> index, field |-> field, error |-> error]

\* the loop over required_fields
RECURSIVE required_fields(_, _, _)
required_fields(row, index, fields) ==
    IF fields = <<>> THEN <<>>
    ELSE (IF isna(row[Head(fields)]) \/ row[Head(fields)] = ""
          THEN <<FieldError(index, Head(fields), "Required field is missing")>>
          ELSE <<>>)
         \o required_fields(row, index, Tail(fields))

\* DataValidator._validate_single_record
validate_single_record(row, index) ==
    (IF ~validate_pnr(row.PNR)
     THEN <<FieldError(index, "PNR", "Invalid PNR format")>> ELSE <<>>)
 \o (IF ~validate_passenger_name(row.Passenger)
     THEN <<FieldError(index, "Passenger", "Invalid passenger name")>>
     ELSE <<>>)
 \o (IF ~validate_airport_code(row.Origin)
     THEN <<FieldError(index, "Origin", "Invalid origin airport code")>>
     ELSE <<>>)
 \o (IF ~validate_airport_code(row.Destination)
     THEN <<FieldError(index, "Destination",
                       "Invalid destination airport code")>>
     ELSE <<>>)
 \o (IF py_eq(row.Origin, row.Destination)
     THEN <<FieldError(index, "Origin/Destination",
                       "Origin and destination cannot be the same")>>
     ELSE <<>>)
 \o (IF ~validate_fare(row.Fare)
     THEN <<FieldError(index, "Fare", "Invalid fare amount")>> ELSE <<>>)
 \o (IF ~validate_status(row.Status)
     THEN <<FieldError(index, "Status", "Invalid status value")>> ELSE <<>>)
 \o (IF ~validate_email(row.Email)
     THEN <<FieldError(index, "Email", "Invalid email format")>> ELSE <<>>)
 \o required_fields(row, index,
                    <<"PNR", "Passenger", "Origin", "Destination", "Status">>)

\* error.split(':')[0] if ':' in error else 'General'
Category(error) ==
    IF error = "Invalid steel grade: X1" THEN "Invalid steel grade"
    ELSE IF error = "Invalid email format: not-an-address"
         THEN "Invalid email format"
         ELSE IF error = "Invalid Order ID format: ORD-17. Expected: SO-YYYY-NNNN"
              THEN "Invalid Order ID format"
              ELSE "General"

Categories ==
    {"Invalid steel grade", "Invalid email format", "Invalid Order ID format",
     "General"}

\* error_categories[category] = error_categories.get(category, 0) + 1, for
\* every error of the record; a key not in the dict reads as 0.
RECURSIVE Categorize(_, _)
Categorize(cats, errors) ==
    IF errors = <<>> THEN cats
    ELSE Categorize([cats EXCEPT ![Category(Head(errors))] = @ + 1],
                    Tail(errors))

\* orders_data[orders_data['ContactEmail'].notna() & (... != '')]
HasDestination(order) == ~isna(order.ContactEmail) /\ order.ContactEmail # ""

\* the row positions iterrows() visits
AllRows(rows) == [i \in 1..Len(rows) |-> i]

\* the row positions of valid_email_orders, in frame order
RECURSIVE FilterDestinations(_, _)
FilterDestinations(rows, i) ==
    IF i > Len(rows) THEN <<>>
    ELSE (IF HasDestination(rows[i]) THEN <<i>> ELSE <<>>)
         \o FilterDestinations(rows, i + 1)

LoopContinuesOffByOne(rc) == rc <= max_retries

\* while retry_count < max_retries
LoopContinues(rc) == rc < max_retries

ExhaustedEarly(rc) == rc >= max_retries - 1

\* if retry_count >= max_retries
Exhausted(rc) == rc >= max_retries

\* The seconds a worker sleeps after its rc-th failed attempt, when it
\* sleeps.  send_single_email: time.sleep(2 ** retry_count).  The flight
\* sender: tenacity's wait_exponential(multiplier=1, min=4, max=10), that is
\* max(4, min(1 * 2 ** (attempt_number - 1), 10)).
backoff_wait(rc) ==
    IF Steel THEN 2 ^ rc
    ELSE LET exp == 2 ^ (rc - 1)
             capped == IF exp > 10 THEN 10 ELSE exp
         IN IF capped < 4 THEN 4 ELSE capped

TenacityStopsEarly(attempt_number) == attempt_number >= stop_after_attempt - 1

\* tenacity stop_after_attempt(3): stop once attempt_number >= 3
TenacityStops(attempt_number) == attempt_number >= stop_after_attempt

\* An error value is a message and the exception it was built from; an
\* exception is named by the transport invocation (1, 2, ...) that raised it,
\* 0 standing for "no transport exception".
NoError == [msg |-> None, cause |-> 0]

\* The exception raised by the k-th transport invocation of a task.
TransportError(k) == k

\* result dict of send_single_email as first built; `row` names the future
\* the dict belongs to (future_to_order)
NewResult(i, email) ==
    [row |-> i, email |-> email, success |-> FALSE, error |-> NoError]

FailedAfterFirst(e) ==
    [msg |-> "Failed after 3 attempts", cause |-> TransportError(1)]

\* result['error'] = f"Failed after {max_retries} attempts: {str(e)}"
FailedAfter(e) == [msg |-> "Failed after 3 attempts", cause |-> e]

\* the dict appended when format_email_content raises
PreparationFailure(i, email) ==
    [row |-> i, email |-> email, success |-> FALSE,
     error |-> [msg |-> "Email preparation failed", cause |-> 0]]

\* the dicts of the flight service; a key the dict lacks reads Absent
Absent == "absent"

SkippedResult(i) ==
    [row |-> i, PNR |-> i, email |-> Absent, status |-> "skipped",
     error |-> [msg |-> "No email address", cause |-> 0]]

SentResult(i, email) ==
    [row |-> i, PNR |-> i, email |-> email, status |-> "sent",
     error |-> NoError]

\* tenacity's RetryError wrapping the last attempt's exception
RetryError(e) == [msg |-> "RetryError", cause |-> e]

FailedResult(i, err) ==
    [row |-> i, PNR |-> i, email |-> Absent, status |-> "failed",
     error |-> err]

DoneOnlySent(s) == s = "sent"

\* as_completed yields a future once its worker returned or raised
Done(s) == s \in {"sent", "failed"}

InFlight == { i \in Rows : st[i] \in {"attempting", "backoff"} }

Submitted == { i \in Rows : st[i] \in {"queued", "attempting", "backoff",
                                        "sent", "failed"} }

\* -------------------------------------------------------------------- Init
NoFrame == [cols |-> FALSE, rows |-> <<>>]

\* no file was named yet
NoFile == [encoding |-> "utf-8", rows |-> <<>>]

\* SteelDataProcessor.processing_stats after construction (processing_time
\* and errors_encountered are left out)
NoRecordsProcessed ==
    [total_records_processed |-> 0, valid_records |-> 0,
     invalid_records |-> 0]

\* The frames an entry point can be handed.
\*  - main_steel hands the validator a cleaned frame: its numeric columns were
\*    coerced, so the template fails for a row only when a template column
\*    (CustomerName, ...) is missing from the frame, that is for every row.
\*  - the dispatchers called directly run no rule group, and the flight
\*    sender formats no template: those attributes are left at their
\*    neutral value.
Realisable(e, batch) ==
    /\ e = "main_steel" =>
          \A i, j \in DOMAIN batch : batch[i].printable = batch[j].printable
    /\ e # "main_steel" => \A i \in DOMAIN batch : batch[i].others = <<>>
    /\ e = "main_optimized" => \A i \in DOMAIN batch : batch[i].printable

InitFrom(batches, budget) ==
    /\ entry \in {"main_steel", "send_order_confirmations", "main_optimized"}
    /\ data \in batches
    /\ Realisable(entry, data)
    /\ pc = IF entry = "main_steel" THEN "validate" ELSE "dispatch"
    /\ todo = IF entry = "main_steel" THEN AllRows(data)
              ELSE <<>>
    /\ valid_orders = <<>>
    /\ validation_errors = <<>>
    /\ validation_stats = [total_records_validated |-> 0, valid_records |-> 0,
                           invalid_records |-> 0,
                           error_categories |-> [c \in Categories |-> 0]]
    /\ orders_data = IF entry = "main_steel" THEN NoFrame
                     ELSE [cols |-> TRUE, rows |-> data]
    /\ st = [i \in Slots |-> "created"]
    /\ retry_count = [i \in Slots |-> 0]
    /\ attempts = [i \in Slots |-> 0]
    /\ future = [i \in Slots |-> [row |-> 0]]
    /\ collected = {}
    /\ results = <<>>
    /\ email_stats = [total_emails_sent |-> 0, successful_emails |-> 0,
                      failed_emails |-> 0, errors |-> <<>>]
    /\ faults = budget
    /\ data_clean = NoFrame
    /\ processing_stats = NoRecordsProcessed
    /\ file = NoFile
    /\ call_count = 0
    /\ processed_records = <<>>

\* -------------------------------------------------------------- validation
error_messages_dropped(i, errors) == <<>>

\* for error in errors: self.validation_errors.append(f"Order {order_id}:
\* {error}"); the message is kept with the row it is about
error_messages(i, errors) ==
    [k \in 1..Len(errors) |-> [row |-> i, error |-> errors[k]]]

append_in_front(valid, order) == <<order>> \o valid

\* self.valid_orders.append(order.to_dict()) and
\* valid_records.append(row.to_dict())
append(valid, order) == Append(valid, order)

no_errors_or_one(errors) == Len(errors) <= 1

\* if not errors
no_errors(errors) == errors = <<>>

\* validate_steel_orders' loop over data.iterrows(): the partition it builds
\* from row i on, given what the earlier rows produced.  A row on which
\* validate_single_order raises ends the loop with what was counted so far.
RECURSIVE ValidateFrom(_, _, _)
ValidateFrom(rows, i, acc) ==
    IF i > Len(rows) THEN acc
    ELSE IF validate_single_order_raises(rows[i])
    THEN [acc EXCEPT !.raised = TRUE]
    ELSE LET errors == validate_single_order(rows[i])
         IN IF no_errors(errors)
            THEN ValidateFrom(rows, i + 1,
                    [acc EXCEPT !.valid = append(@, rows[i]),
                                !.stats.valid_records = @ + 1])
            ELSE ValidateFrom(rows, i + 1,
                    [acc EXCEPT
                        !.errors = @ \o error_messages(i, errors),
                        !.stats.invalid_records = @ + 1,
                        !.stats.error_categories = Categorize(@, errors)])

\* main_steel.main, phase 1: validator.validate_steel_orders(raw_data), then
\* the success-rate log line that divides by total_records_validated.
\* pd.DataFrame([]) has no columns.  (--dry-run is not modelled.)
Validate ==
    /\ pc = "validate"
    /\ LET out == ValidateFrom(data, 1,
                     [valid |-> <<>>, errors |-> <<>>,
                      stats |-> validation_stats, raised |-> FALSE])
           total == Len(data)
       IN /\ valid_orders' = out.valid
          /\ validation_errors' = out.errors
          /\ validation_stats' =
                 IF out.raised THEN out.stats
                 ELSE [out.stats EXCEPT !.total_records_validated = total]
          /\ orders_data' = IF out.raised THEN NoFrame
                            ELSE [cols |-> out.valid # <<>>,
                                  rows |-> out.valid]
          /\ pc' = IF out.raised \/ total = 0 THEN "failed" ELSE "dispatch"
    /\ todo' = <<>>
    /\ UNCHANGED <<cleanVars, entry, data, taskVars, collected, results, email_stats,
                   faults>>

\* ---------------------------------------------------- dispatch: main thread
\* Entry of send_order_confirmations / send_confirmations_optimized up to the
\* first loop iteration.  orders_data['ContactEmail'] raises KeyError on a
\* frame without that column; main_steel.main catches it and returns 1.
Call ==
    /\ pc = "dispatch"
    /\ IF Steel /\ ~orders_data.cols
       THEN /\ pc' = "failed"
            /\ todo' = <<>>
       ELSE /\ todo' = IF Steel THEN FilterDestinations(orders_data.rows, 1)
                       ELSE AllRows(orders_data.rows)
            /\ pc' = IF todo' = <<>> THEN "collect" ELSE "submit"
    /\ UNCHANGED <<cleanVars, entry, data, valVars, orders_data, taskVars, collected,
                   results, email_stats, faults>>

LoopOn == IF Tail(todo) = <<>> THEN "collect" ELSE "submit"

\* One iteration of the submit loop: the task is handed to the executor.
SubmitTask ==
    /\ pc = "submit"
    /\ LET i == Head(todo)
           order == orders_data.rows[i]
       IN /\ IF Steel THEN order.printable ELSE ~isna(order.ContactEmail)
          /\ st' = [st EXCEPT ![i] = "queued"]
    /\ todo' = Tail(todo)
    /\ pc' = LoopOn
    /\ UNCHANGED <<cleanVars, entry, data, valVars, orders_data, retry_count, attempts,
                   future, collected, results, email_stats, faults>>

\* One iteration of the steel submit loop whose format_email_content raises:
\* the except branch appends a failure dict and touches no counter.
PreparationFailed ==
    /\ pc = "submit"
    /\ Steel
    /\ LET i == Head(todo)
           order == orders_data.rows[i]
       IN /\ ~order.printable
          /\ st' = [st EXCEPT ![i] = "unprepared"]
          /\ results' = Append(results,
                               PreparationFailure(i, order.ContactEmail))
    /\ todo' = Tail(todo)
    /\ pc' = LoopOn
    /\ UNCHANGED <<cleanVars, entry, data, valVars, orders_data, retry_count, attempts,
                   future, collected, email_stats, faults>>

\* One iteration of the flight submit loop on a row whose Email is NaN.
SkipNoEmail ==
    /\ pc = "submit"
    /\ Flight
    /\ LET i == Head(todo)
           order == orders_data.rows[i]
       IN /\ isna(order.ContactEmail)
          /\ st' = [st EXCEPT ![i] = "skipped"]
          /\ results' = Append(results, SkippedResult(i))
    /\ todo' = Tail(todo)
    /\ pc' = LoopOn
    /\ UNCHANGED <<cleanVars, entry, data, valVars, orders_data, retry_count, attempts,
                   future, collected, email_stats, faults>>

\* One iteration of `for future in as_completed(...)`.
Collect(i) ==
    /\ pc = "collect"
    /\ i \in Rows
    /\ Done(st[i])
    /\ i \notin collected
    /\ collected' = collected \cup {i}
    /\ IF Steel
       THEN /\ results' = Append(results, future[i])
            /\ email_stats' =
                 IF future[i].success
                 THEN [email_stats EXCEPT !.successful_emails = @ + 1]
                 ELSE [email_stats EXCEPT !.failed_emails = @ + 1]
       ELSE /\ results' = Append(results,
                 IF st[i] = "sent" THEN future[i]
                 ELSE FailedResult(i, future[i].error))
            /\ UNCHANGED email_stats
    /\ UNCHANGED <<cleanVars, entry, data, pc, todo, valVars, orders_data, taskVars,
                   faults>>

\* as_completed is exhausted: the pool shuts down, the statistics are
\* updated and the results list is returned.
Return ==
    /\ pc = "collect"
    /\ Submitted \subseteq collected
    /\ pc' = "returned"
    /\ email_stats' =
         IF Steel
         THEN [email_stats EXCEPT !.total_emails_sent = Len(results)]
         ELSE email_stats
    /\ UNCHANGED <<cleanVars, entry, data, todo, valVars, orders_data, taskVars,
                   collected, results, faults>>

\* --------------------------------------------------- dispatch: the workers
PoolOneTooWide == Cardinality(InFlight) <= max_workers

\* A pool thread takes work only while fewer than max_workers are busy.
PoolHasIdleWorker == Cardinality(InFlight) < max_workers

\* A worker thread takes the task off the queue and enters the sender.
Start(i) ==
    /\ i \in Rows
    /\ st[i] = "queued"
    \* the executor's work queue is FIFO
    /\ \A j \in Rows : j < i => st[j] # "queued"
    /\ PoolHasIdleWorker
    /\ st' = [st EXCEPT ![i] = "attempting"]
    /\ future' = [future EXCEPT ![i] =
                    IF Steel
                    THEN NewResult(i, orders_data.rows[i].ContactEmail)
                    ELSE @]
    /\ UNCHANGED <<cleanVars, entry, data, pc, todo, valVars, orders_data, retry_count,
                   attempts, collected, results, email_stats, faults>>

\* The transport accepts the message.
SendOk(i) ==
    /\ i \in Rows
    /\ st[i] = "attempting"
    /\ attempts' = [attempts EXCEPT ![i] = @ + 1]
    /\ st' = [st EXCEPT ![i] = "sent"]
    /\ future' = [future EXCEPT ![i] =
                    IF Steel THEN [@ EXCEPT !.success = TRUE]
                    ELSE SentResult(i, orders_data.rows[i].ContactEmail)]
    /\ UNCHANGED <<cleanVars, entry, data, pc, todo, valVars, orders_data, retry_count,
                   collected, results, email_stats, faults>>

\* The transport raises.
SendFail(i) ==
    /\ i \in Rows
    /\ st[i] = "attempting"
    /\ faults > 0
    /\ faults' = faults - 1
    /\ attempts' = [attempts EXCEPT ![i] = @ + 1]
    /\ retry_count' = [retry_count EXCEPT ![i] = @ + 1]
    /\ LET e == TransportError(attempts'[i])
           rc == retry_count'[i]
       IN IF Steel
          THEN /\ future' = [future EXCEPT ![i].error =
                               IF Exhausted(rc) THEN FailedAfter(e) ELSE @]
               /\ email_stats' =
                    IF Exhausted(rc)
                    THEN [email_stats EXCEPT
                            !.errors = Append(@, FailedAfter(e))]
                    ELSE email_stats
               /\ st' = [st EXCEPT ![i] =
                            IF ~LoopContinues(rc) THEN "failed"
                            ELSE IF Exhausted(rc) THEN "attempting"
                                 ELSE "backoff"]
          ELSE /\ future' = [future EXCEPT ![i] =
                               IF TenacityStops(rc)
                               THEN [row |-> i, error |-> RetryError(e)]
                               ELSE @]
               /\ UNCHANGED email_stats
               /\ st' = [st EXCEPT ![i] =
                            IF TenacityStops(rc) THEN "failed" ELSE "backoff"]
    /\ UNCHANGED <<cleanVars, entry, data, pc, todo, valVars, orders_data, collected,
                   results>>

\* The backoff sleep ends and the next attempt begins.
Wake(i) ==
    /\ i \in Rows
    /\ st[i] = "backoff"
    /\ st' = [st EXCEPT ![i] = "attempting"]
    /\ UNCHANGED <<cleanVars, entry, data, pc, todo, valVars, orders_data, retry_count,
                   attempts, future, collected, results, email_stats, faults>>

MainStep ==
    \/ Validate
    \/ Call
    \/ SubmitTask
    \/ PreparationFailed
    \/ SkipNoEmail
    \/ \E i \in Slots : Collect(i)
    \/ Return

WorkerStep(i) == Start(i) \/ SendOk(i) \/ SendFail(i) \/ Wake(i)

Next ==
    \/ Validate
    \/ Call
    \/ SubmitTask
    \/ PreparationFailed
    \/ SkipNoEmail
    \/ \E i \in Slots : Collect(i)
    \/ Return
    \/ \E i \in Slots : Start(i)
    \/ \E i \in Slots : SendOk(i)
    \/ \E i \in Slots : SendFail(i)
    \/ \E i \in Slots : Wake(i)

Spec == InitFrom(Batches(MaxRecords), MaxFaults) /\ [][Next]_vars

SpecPool == InitFrom(PoolBatches, PoolFaults) /\ [][Next]_vars

\* The threads are scheduled fairly: a thread that can take a step takes it.
SpecFair ==
    /\ InitFrom(Batches(FairRecords), MaxFaults)
    /\ [][Next]_vars
    /\ WF_vars(MainStep)
    /\ \A i \in 1..FairRecords : WF_vars(WorkerStep(i))

\* ------------------------------------- one EmailService, call after call
InitCalls ==
    /\ InitFrom(Batches(CallRecords), CallFaults)
    /\ entry = "send_order_confirmations"

\* send_order_confirmations is called again on the same EmailService:
\* results, the pool and the futures are new, email_stats is the object's.
CallAgain ==
    /\ entry = "send_order_confirmations"
    /\ pc = "returned"
    /\ email_stats.successful_emails + email_stats.failed_emails < MaxCounted
    /\ \E batch \in Batches(CallRecords) :
          /\ Realisable(entry, batch)
          /\ data' = batch
          /\ orders_data' = [cols |-> TRUE, rows |-> batch]
    /\ pc' = "dispatch"
    /\ todo' = <<>>
    /\ st' = [i \in Slots |-> "created"]
    /\ retry_count' = [i \in Slots |-> 0]
    /\ attempts' = [i \in Slots |-> 0]
    /\ future' = [i \in Slots |-> [row |-> 0]]
    /\ collected' = {}
    /\ results' = <<>>
    /\ UNCHANGED <<cleanVars, entry, valVars, email_stats, faults>>

SpecCalls ==
    /\ InitCalls
    /\ [][\/ Call
          \/ SubmitTask
          \/ PreparationFailed
          \/ \E i \in Slots : Collect(i)
          \/ Return
          \/ \E i \in Slots : Start(i)
          \/ \E i \in Slots : SendOk(i)
          \/ \E i \in Slots : SendFail(i)
          \/ \E i \in Slots : Wake(i)
          \/ CallAgain]_vars

\* ---------------------------------------------- the validators on their own
\* A steel order with every column validate_single_order reads.  Dimensions
\* are millimetres, the weight kilograms, UnitPrice dollars per ton,
\* TotalPrice dollars, dates day numbers counted from today.
GoodOrder ==
    [OrderID |-> "SO-2024-0001", BatchID |-> "B-000001",
     SteelGrade |-> "A36", SteelType |-> "Hot Rolled",
     Thickness |-> Float(10), Width |-> Float(1000), Length |-> Float(10000),
     Weight |-> Float(785), UnitPrice |-> Float(800),
     TotalPrice |-> Float(628),
     ProductionLine |-> "Line-A1", Warehouse |-> "WH-North",
     QualityGrade |-> "A", Status |-> "Pending",
     OrderDate |-> -10, ProductionDate |-> -5, DeliveryDate |-> 20,
     ContactEmail |-> GoodEmail]

\* Orders that differ from GoodOrder in the columns of any number of rule
\* groups at once.
AllOrders ==
    { [GoodOrder EXCEPT !.OrderID = a, !.BatchID = b, !.SteelGrade = g,
                        !.Width = w, !.Weight = kg, !.TotalPrice = p,
                        !.QualityGrade = q[1], !.Status = q[2],
                        !.DeliveryDate = d, !.ContactEmail = e] :
        a \in {"SO-2024-0001", "ORD-17"},
        b \in {"B-000001", NaN},
        g \in {"A36", "X1", "304SS", NaN},
        w \in {Float(1000), Str("wide")},
        kg \in {Float(785), Float(0)},
        p \in {Float(628), Float(700), Str("$628")},
        q \in {<<"A", "Pending">>, <<"Reject", "Shipped">>},
        d \in {20, -7, TextCell},
        e \in {GoodEmail, "", "not-an-address", NumberCell} }

\* The orders of the frames that are validated run after run.
FewOrders ==
    { GoodOrder,
      [GoodOrder EXCEPT !.OrderID = "SO-2024-0002"],
      [GoodOrder EXCEPT !.SteelGrade = "X1"],
      [GoodOrder EXCEPT !.ContactEmail = ""],
      [GoodOrder EXCEPT !.OrderID = "ORD-17", !.Weight = Float(0)],
      [GoodOrder EXCEPT !.SteelGrade = NaN] }

GoodReservation ==
    [PNR |-> "ABC123", Passenger |-> "Ann Lee", Origin |-> "LAX",
     Destination |-> "JFK", Fare |-> Str("$628"), Status |-> "Confirmed",
     Email |-> GoodEmail]

AllReservations ==
    { [PNR |-> n, Passenger |-> p, Origin |-> o, Destination |-> d,
       Fare |-> f, Status |-> s, Email |-> e] :
        n \in {"ABC123", "abc", NaN},
        p \in {"Ann Lee", "A"},
        o \in {"LAX", "XXX", NaN},
        d \in {"JFK", "LAX", NaN},
        f \in {Str("$628"), Str("$1,200"), Str("abc"), Float(0),
               Float(NaNCell)},
        s \in {"Confirmed", "Unknown"},
        e \in {GoodEmail, "", NaN, "not-an-address"} }

FewReservations ==
    { GoodReservation,
      [GoodReservation EXCEPT !.PNR = "XYZ789"],
      [GoodReservation EXCEPT !.Email = NaN],
      [GoodReservation EXCEPT !.Destination = "LAX"],
      [GoodReservation EXCEPT !.Fare = Str("abc")],
      [GoodReservation EXCEPT !.PNR = NaN] }

Frames(rows, n) == UNION { [1..k -> rows] : k \in 0..n }

\* A validator object right after construction; no frame was passed yet.
InitValidation ==
    /\ entry \in {"validate_steel_orders", "validate_reservations"}
    /\ data = <<>>
    /\ pc = "idle"
    /\ todo = <<>>
    /\ valid_orders = <<>>
    /\ validation_errors = <<>>
    /\ validation_stats = [total_records_validated |-> 0, valid_records |-> 0,
                           invalid_records |-> 0,
                           error_categories |-> [c \in Categories |-> 0]]
    /\ orders_data = NoFrame
    /\ st = [i \in Slots |-> "created"]
    /\ retry_count = [i \in Slots |-> 0]
    /\ attempts = [i \in Slots |-> 0]
    /\ future = [i \in Slots |-> [row |-> 0]]
    /\ collected = {}
    /\ results = <<>>
    /\ email_stats = [total_emails_sent |-> 0, successful_emails |-> 0,
                      failed_emails |-> 0, errors |-> <<>>]
    /\ faults = 0
    /\ data_clean = NoFrame
    /\ processing_stats = NoRecordsProcessed
    /\ file = NoFile
    /\ call_count = 0
    /\ processed_records = <<>>

\* SteelDataValidator.validate_steel_orders(batch) called on the validator:
\* valid_orders and validation_errors start empty, validation_stats is
\* carried over from the runs before.  An exception of validate_single_order
\* leaves the method; total_records_validated is then not assigned.
validate_steel_orders(batch) ==
    /\ entry = "validate_steel_orders"
    /\ validation_stats.valid_records + validation_stats.invalid_records
         + Len(batch) <= MaxValidated
    /\ LET out == ValidateFrom(batch, 1,
                     [valid |-> <<>>, errors |-> <<>>,
                      stats |-> validation_stats, raised |-> FALSE])
       IN /\ valid_orders' = out.valid
          /\ validation_errors' = out.errors
          /\ validation_stats' =
                 IF out.raised THEN out.stats
                 ELSE [out.stats EXCEPT
                          !.total_records_validated = Len(batch)]
          /\ pc' = IF out.raised THEN "raised" ELSE "returned"
    /\ data' = batch
    /\ UNCHANGED <<cleanVars, entry, todo, orders_data, taskVars, collected, results,
                   email_stats, faults>>

\* validate_reservations' loop over data.iterrows()
RECURSIVE ValidateReservationsFrom(_, _, _)
ValidateReservationsFrom(rows, i, acc) ==
    IF i > Len(rows) THEN acc
    ELSE LET errors == validate_single_record(rows[i], i)
         IN IF errors # <<>>   \* if errors:
            THEN ValidateReservationsFrom(rows, i + 1,
                    [acc EXCEPT !.errors = @ \o errors])
            ELSE ValidateReservationsFrom(rows, i + 1,
                    [acc EXCEPT !.valid = append(@, rows[i])])

\* DataValidator.validate_reservations(batch)
validate_reservations(batch) ==
    /\ entry = "validate_reservations"
    /\ LET out == ValidateReservationsFrom(batch, 1,
                     [valid |-> <<>>, errors |-> <<>>])
       IN /\ valid_orders' = out.valid
          /\ validation_errors' = out.errors
    /\ pc' = "returned"
    /\ data' = batch
    /\ UNCHANGED <<cleanVars, entry, todo, validation_stats, orders_data, taskVars,
                   collected, results, email_stats, faults>>

\* One record is validated by a fresh validator.
NextRules ==
    \/ \E order \in AllOrders :
          pc = "idle" /\ validate_steel_orders(<<order>>)
    \/ \E row \in AllReservations :
          pc = "idle" /\ validate_reservations(<<row>>)

SpecRules == InitValidation /\ [][NextRules]_vars

\* Frames are validated one after the other by the same validator.
NextValidation ==
    \/ \E batch \in Frames(FewOrders, ValRecords) :
          validate_steel_orders(batch)
    \/ \E batch \in Frames(FewReservations, ValRecords) :
          validate_reservations(batch)

SpecValidation == InitValidation /\ [][NextValidation]_vars

\* Orders whose total price lies within 8 % of (weight / 1000) * unit price,
\* on both sides of the 5 % tolerance and on it.
PricedOrders ==
    { order \in
        { [GoodOrder EXCEPT !.Weight = Float(w), !.UnitPrice = Float(u),
                            !.TotalPrice = Float(t)] :
            w \in {250, 275, 500, 750, 1000, 2000}, u \in {800, 1000},
            t \in 1..MaxTotalPrice } :
        100 * abs(order.TotalPrice.float * 1000
                    - order.Weight.float * order.UnitPrice.float)
          <= 8 * order.Weight.float * order.UnitPrice.float }

\* One validator object validates one priced order.
SpecPricing ==
    /\ InitValidation
    /\ [][/\ pc = "idle"
          /\ \E order \in PricedOrders :
                validate_steel_orders(<<order>>)]_vars

\* ------------------------------------------------------------ the cleaners
\* row[column] = value
assign(row, column, value) == (column :> value) @@ row

\* frame.drop_duplicates(subset=[column], keep='first'); missing keys count
\* as equal to each other
drop_duplicates(rows, column) ==
    LET first(i) == \A j \in 1..(i - 1) : rows[j][column] # rows[i][column]
        F[i \in 0..Len(rows)] ==
            IF i = 0 THEN <<>>
            ELSE IF first(i) THEN Append(F[i - 1], rows[i]) ELSE F[i - 1]
    IN F[Len(rows)]

\* frame[mask]: the rows at which the boolean mask holds, in frame order
filter(rows, mask) ==
    LET F[i \in 0..Len(rows)] ==
            IF i = 0 THEN <<>>
            ELSE IF mask[i] THEN Append(F[i - 1], rows[i]) ELSE F[i - 1]
    IN F[Len(rows)]

\* a value that float() or pd.to_numeric could not convert, or NaN, read as 0
or_zero(x) == IF x \in {TextCell, NaNCell} THEN 0 ELSE x

clean_price_value_of_text_only(price_str) ==
    IF is_str(price_str)
    THEN Float(or_zero(float(replace_comma(replace_dollar(price_str.str)))))
    ELSE Float(0)

\* SteelDataProcessor.clean_price_value (strip() changes none of the price
\* texts the frames use)
clean_price_value(price_str) ==
    IF is_str(price_str)
    THEN IF price_str.str = "" THEN Float(0)
         ELSE Float(or_zero(float(replace_comma(replace_dollar(
                                                    price_str.str)))))
    ELSE Float(or_zero(price_str.float))

\* pd.to_numeric(column, errors='coerce').fillna(0), cell by cell
to_numeric_fillna(cell) ==
    IF is_str(cell) THEN Float(or_zero(float(cell.str)))
    ELSE Float(or_zero(cell.float))

\* steps 2 and 3 of SteelDataProcessor.clean_data_optimized on one row
coerce(order) ==
    [order EXCEPT !.TotalPrice = clean_price_value(@),
                  !.UnitPrice = clean_price_value(@),
                  !.Weight = to_numeric_fillna(@),
                  !.Thickness = to_numeric_fillna(@),
                  !.Width = to_numeric_fillna(@),
                  !.Length = to_numeric_fillna(@)]

\* step 4: valid_mask, on a row whose numeric columns were coerced
valid_mask(order) ==
    /\ order.SteelGrade \in valid_steel_grades
    /\ order.SteelType \in valid_steel_types
    /\ order.ProductionLine \in valid_production_lines
    /\ order.Status \in valid_statuses
    /\ order.Warehouse \in valid_warehouses
    /\ order.TotalPrice.float > 0
    /\ order.Weight.float > 0
    /\ order.Thickness.float > 0
    /\ order.Width.float > 0
    /\ order.Length.float > 0

\* step 5: the derived columns.  ValuePerKg is kept in thousandths of a
\* dollar per kilogram, Volume in cubic centimetres, Density in kilograms
\* per cubic metre.
derive(order) ==
    LET Volume == (order.Thickness.float * order.Width.float
                     * order.Length.float) \div 1000
    IN assign(assign(assign(order,
          "ValuePerKg",
          Float((order.TotalPrice.float * 1000) \div order.Weight.float)),
          "Volume", Float(Volume)),
          "Density", Float((order.Weight.float * 1000000) \div Volume))

\* SteelDataProcessor.clean_data_optimized: the frame it returns and the
\* statistics it stores (the ProcessedAt stamp is left out)
steel_clean_data_optimized(rows) ==
    LET deduplicated == drop_duplicates(rows, "OrderID")
        duplicates_removed == Len(rows) - Len(deduplicated)
        coerced == [i \in 1..Len(deduplicated) |-> coerce(deduplicated[i])]
        kept == filter(coerced, [i \in 1..Len(coerced) |->
                                     valid_mask(coerced[i])])
        invalid_count == Len(coerced) - Len(kept)
    IN [frame |-> [cols |-> TRUE,
                   rows |-> [i \in 1..Len(kept) |-> derive(kept[i])]],
        stats |-> [total_records_processed |-> Len(rows),
                   valid_records |-> Len(kept),
                   invalid_records |-> invalid_count + duplicates_removed]]

\* clean_fare, local to DataProcessor.clean_data_optimized: only '$' is
\* removed before float()
clean_fare(fare_value) ==
    IF is_str(fare_value)
    THEN Float(or_zero(float(replace_dollar(fare_value.str))))
    ELSE Float(or_zero(fare_value.float))

\* the four filters of DataProcessor.clean_data_optimized
reservation_mask(row) ==
    /\ row.Origin \in valid_airports
    /\ row.Destination \in valid_airports
    /\ ~py_eq(row.Origin, row.Destination)
    /\ row.Status \in reservation_statuses
    /\ row.Fare.float > 0

\* DataProcessor.clean_data_optimized
flight_clean_data_optimized(rows) ==
    LET deduplicated == drop_duplicates(rows, "PNR")
        cleaned == [i \in 1..Len(deduplicated) |->
                       [deduplicated[i] EXCEPT !.Fare = clean_fare(@)]]
    IN [frame |-> [cols |-> TRUE,
                   rows |-> filter(cleaned, [i \in 1..Len(cleaned) |->
                                      reservation_mask(cleaned[i])])],
        stats |-> processing_stats]

\* Raw steel orders: rows that share an OrderID and differ in their cells,
\* prices as text, rows the mask drops, a missing key.
RawOrders ==
    { GoodOrder,
      [GoodOrder EXCEPT !.TotalPrice = Str("$628")],
      [GoodOrder EXCEPT !.TotalPrice = Str("$1,200")],
      [GoodOrder EXCEPT !.SteelGrade = "X1"],
      [GoodOrder EXCEPT !.TotalPrice = Float(NaNCell), !.ContactEmail = ""],
      [GoodOrder EXCEPT !.OrderID = "SO-2024-0002", !.ContactEmail = ""],
      [GoodOrder EXCEPT !.OrderID = "SO-2024-0002", !.Weight = Float(0)],
      [GoodOrder EXCEPT !.OrderID = NaN, !.Width = Str("1000")] }

RawReservations ==
    { GoodReservation,
      [GoodReservation EXCEPT !.Fare = Float(628)],
      [GoodReservation EXCEPT !.Fare = Str("$1,200")],
      [GoodReservation EXCEPT !.Status = "Unknown"],
      [GoodReservation EXCEPT !.Fare = Str("abc"), !.Email = NaN],
      [GoodReservation EXCEPT !.PNR = "XYZ789", !.Email = "not-an-address"],
      [GoodReservation EXCEPT !.PNR = "XYZ789", !.Destination = "LAX"],
      [GoodReservation EXCEPT !.PNR = NaN, !.Email = NaN] }

UsesSteelCleaner == entry \in {"SteelDataProcessor", "main_steel"}

\* A frame was loaded; nothing was cleaned or validated yet.
InitLoaded(entries) ==
    /\ entry \in entries
    /\ data \in IF entry \in {"SteelDataProcessor", "main_steel"}
                 THEN Frames(RawOrders, CleanRecords)
                 ELSE Frames(RawReservations, CleanRecords)
    /\ pc = "loaded"
    /\ todo = <<>>
    /\ valid_orders = <<>>
    /\ validation_errors = <<>>
    /\ validation_stats = [total_records_validated |-> 0, valid_records |-> 0,
                           invalid_records |-> 0,
                           error_categories |-> [c \in Categories |-> 0]]
    /\ orders_data = NoFrame
    /\ st = [i \in Slots |-> "created"]
    /\ retry_count = [i \in Slots |-> 0]
    /\ attempts = [i \in Slots |-> 0]
    /\ future = [i \in Slots |-> [row |-> 0]]
    /\ collected = {}
    /\ results = <<>>
    /\ email_stats = [total_emails_sent |-> 0, successful_emails |-> 0,
                      failed_emails |-> 0, errors |-> <<>>]
    /\ faults = 0
    /\ data_clean = NoFrame
    /\ processing_stats = NoRecordsProcessed
    /\ file = NoFile
    /\ call_count = 0
    /\ processed_records = <<>>

\* clean_data_optimized of the cleaner in use
clean_data_optimized(rows) ==
    IF UsesSteelCleaner THEN steel_clean_data_optimized(rows)
    ELSE flight_clean_data_optimized(rows)

\* the columns of a frame; a frame without rows still has the header of
\* the file
columns(rows) == IF rows = <<>> THEN DOMAIN GoodOrder ELSE DOMAIN rows[1]

\* a subscript of clean_data_optimized raises KeyError: the frame lacks a
\* column the cleaner reads (data_clean['OrderID'], ...)
clean_raises(rows) ==
    LET columns_read ==
            IF UsesSteelCleaner
            THEN {"OrderID", "TotalPrice", "UnitPrice", "Weight", "Thickness",
                  "Width", "Length", "SteelGrade", "SteelType",
                  "ProductionLine", "Status", "Warehouse"}
            ELSE {"PNR", "Fare", "Origin", "Destination", "Status"}
    IN rows # <<>> /\ ~(columns_read \subseteq columns(rows))

\* The caller cleans its frame.  The validator's pd.DataFrame([]) has no
\* column, and drop_duplicates(subset=['PNR']) raises KeyError on it.  The
\* steel cleaner's except clause appends to errors_encountered and raises
\* again; the counters are assigned only at the end of the try block.
CleanData ==
    \* where each caller calls clean_data_optimized: on the loaded frame,
    \* or (run_automation) on the frame the validator returned
    /\ <<entry, pc>> \in
          { <<"SteelDataProcessor", "loaded">>, <<"DataProcessor", "loaded">>,
            <<"main_steel", "loaded">>, <<"main_optimized", "loaded">>,
            <<"run_automation", "validated">> }
    /\ LET input == IF entry = "run_automation" THEN valid_orders ELSE data
           out == clean_data_optimized(input)
       IN IF (entry = "run_automation" /\ valid_orders = <<>>)
             \/ clean_raises(input)
          THEN /\ pc' = "failed"
               /\ UNCHANGED cleanVars
          ELSE /\ pc' = "cleaned"
               /\ data_clean' = out.frame
               /\ processing_stats' = out.stats
               /\ UNCHANGED loadVars
    /\ UNCHANGED <<entry, data, todo, valVars, orders_data, taskVars,
                   collected, results, email_stats, faults>>

\* The caller passes the frame the cleaner returned to the cleaner again.
CleanAgain ==
    /\ entry \in {"SteelDataProcessor", "DataProcessor"}
    /\ pc = "cleaned"
    /\ data' = data_clean.rows
    /\ LET out == clean_data_optimized(data')
       IN /\ data_clean' = out.frame
          /\ processing_stats' = out.stats
    /\ pc' = "recleaned"
    /\ UNCHANGED loadVars
    /\ UNCHANGED <<entry, todo, valVars, orders_data, taskVars, collected,
                   results, email_stats, faults>>

SpecCleaning ==
    InitLoaded({"SteelDataProcessor", "DataProcessor"}) /\ [][CleanData \/ CleanAgain]_vars

\* main_steel.main: validator.validate_steel_orders(raw_data) on the frame
\* process_steel_orders returned, then the success-rate log line.
ValidateCleaned ==
    /\ entry = "main_steel"
    /\ pc = "cleaned"
    /\ LET out == ValidateFrom(data_clean.rows, 1,
                     [valid |-> <<>>, errors |-> <<>>,
                      stats |-> validation_stats, raised |-> FALSE])
           total == Len(data_clean.rows)
       IN /\ valid_orders' = out.valid
          /\ validation_errors' = out.errors
          /\ validation_stats' =
                 IF out.raised THEN out.stats
                 ELSE [out.stats EXCEPT !.total_records_validated = total]
          /\ pc' = IF out.raised \/ total = 0 THEN "failed" ELSE "validated"
    /\ UNCHANGED <<cleanVars, entry, data, todo, orders_data, taskVars,
                   collected, results, email_stats, faults>>

\* run_automation_pipeline: validator.validate_reservations(raw_data)
ValidateRaw ==
    /\ entry = "run_automation"
    /\ pc = "loaded"
    /\ LET out == ValidateReservationsFrom(data, 1,
                     [valid |-> <<>>, errors |-> <<>>])
       IN /\ valid_orders' = out.valid
          /\ validation_errors' = out.errors
    /\ pc' = "validated"
    /\ UNCHANGED <<cleanVars, entry, data, todo, validation_stats,
                   orders_data, taskVars, collected, results, email_stats,
                   faults>>

\* The entry points up to the call of the dispatcher.
SpecPipeline ==
    InitLoaded({"main_steel", "run_automation", "main_optimized"})
      /\ [][CleanData \/ ValidateCleaned \/ ValidateRaw]_vars

ValidateOneOrder ==
    /\ pc = "idle"
    /\ \E order \in AllOrders : validate_steel_orders(<<order>>)

\* A validator object before its first run, or a steel cleaner with a
\* loaded frame; the validator validates one order, or the cleaner cleans
\* its frame.
SpecDivisions ==
    /\ \/ InitValidation /\ entry = "validate_steel_orders"
       \/ InitLoaded({"SteelDataProcessor"})
    /\ [][ValidateOneOrder \/ CleanData]_vars

\* One-order files, complete or with one column of the schema missing.
OrderFiles ==
    Frames(RawOrders, 1)
      \cup { << [c \in (DOMAIN order) \ {column} |-> order[c]] >> :
               order \in RawOrders, column \in DOMAIN GoodOrder }

InitFiles ==
    /\ InitLoaded({"SteelDataProcessor"})
    /\ data \in OrderFiles

\* The same SteelDataProcessor is given the next file.
LoadFile ==
    /\ entry = "SteelDataProcessor"
    /\ pc \in {"cleaned", "failed"}
    /\ data' \in OrderFiles
    /\ pc' = "loaded"
    /\ UNCHANGED <<cleanVars, entry, todo, valVars, orders_data, taskVars,
                   collected, results, email_stats, faults>>

SpecFiles == InitFiles /\ [][CleanData \/ LoadFile]_vars

\* ------------------------------------------- the flight DataProcessor alone
\* A DataProcessor and a reservations file, in utf-8 or in an encoding whose
\* bytes pd.read_csv cannot decode as utf-8.
InitProcessor ==
    /\ entry = "DataProcessor"
    /\ file \in [encoding : {"utf-8", "latin-1"},
                 rows : Frames(RawReservations, FileRecords)]
    /\ call_count = 0
    /\ data = <<>>
    /\ pc = "start"
    /\ todo = <<>>
    /\ valid_orders = <<>>
    /\ validation_errors = <<>>
    /\ validation_stats = [total_records_validated |-> 0, valid_records |-> 0,
                           invalid_records |-> 0,
                           error_categories |-> [c \in Categories |-> 0]]
    /\ orders_data = NoFrame
    /\ st = [i \in Slots |-> "created"]
    /\ retry_count = [i \in Slots |-> 0]
    /\ attempts = [i \in Slots |-> 0]
    /\ future = [i \in Slots |-> [row |-> 0]]
    /\ collected = {}
    /\ results = <<>>
    /\ email_stats = [total_emails_sent |-> 0, successful_emails |-> 0,
                      failed_emails |-> 0, errors |-> <<>>]
    /\ faults = 0
    /\ data_clean = NoFrame
    /\ processing_stats = NoRecordsProcessed
    /\ processed_records = <<>>

\* DataProcessor.load_data: one pd.read_csv(file_path) with the default
\* encoding and no except clause; a UnicodeDecodeError leaves the method.
load_data ==
    /\ entry = "DataProcessor"
    /\ pc = "start"
    /\ call_count' = 1
    /\ IF file.encoding = "utf-8"
       THEN /\ data' = file.rows
            /\ pc' = "loaded"
       ELSE /\ data' = data
            /\ pc' = "raised"
    /\ UNCHANGED <<data_clean, processing_stats, file, processed_records,
                   entry, todo, valVars, orders_data, taskVars, collected,
                   results, email_stats, faults>>

\* _process_single_reservation: the record it returns, as a list of one, or
\* the empty list for None.  '$' and ',' are removed from a text fare.  The
\* columns it only copies (BookingDate, ...) and its stamps are left out.
process_single_reservation(row) ==
    LET fare == IF is_str(row.Fare)
                THEN or_zero(float(replace_comma(replace_dollar(
                                                     row.Fare.str))))
                ELSE or_zero(row.Fare.float)
    IN IF py_eq(row.Origin, row.Destination) THEN <<>>
       ELSE IF row.Origin \notin valid_airports
               \/ row.Destination \notin valid_airports THEN <<>>
       ELSE IF row.Status \notin reservation_statuses THEN <<>>
       ELSE IF fare <= 0 THEN <<>>
       ELSE << [row EXCEPT !.Fare = Float(fare)] >>

\* the loop of process_reservations over data.iterrows()
RECURSIVE process_rows(_, _)
process_rows(rows, i) ==
    IF i > Len(rows) THEN <<>>
    ELSE process_single_reservation(rows[i]) \o process_rows(rows, i + 1)

\* DataProcessor.process_reservations(data), called on the loaded frame
\* after clean_data_optimized returned
process_reservations ==
    /\ entry = "DataProcessor"
    /\ pc = "cleaned"
    /\ processed_records' = process_rows(data, 1)
    /\ pc' = "processed"
    /\ UNCHANGED <<data_clean, processing_stats, file, call_count, entry,
                   data, todo, valVars, orders_data, taskVars, collected,
                   results, email_stats, faults>>

SpecProcessor ==
    InitProcessor /\ [][load_data \/ CleanData \/ process_reservations]_vars

\* ------------------------------------------------------------------ claims
ResultsFor(i) == Cardinality({ k \in 1..Len(results) : results[k].row = i })

\* terminal state a result dict stands for
TerminalState(r) ==
    IF Steel THEN (IF r.success THEN "Sent" ELSE "Failed")
    ELSE IF r.status = "sent" THEN "Sent"
         ELSE IF r.status = "skipped" THEN "Skipped" ELSE "Failed"

\* C1: no task ever makes more than 3 send attempts, whatever the pattern of
\* transport failures, in the steel sender and in the tenacity-wrapped one.
C1_RetryBound == \A i \in Rows : attempts[i] <= 3

C1_Witness ==
    \E i \in Rows : attempts[i] = 3 /\ st[i] = "failed" /\ i \in collected

\* C2: every task handed to the pool ends up with exactly one result in the
\* returned list, never two, in any completion order and also when the worker
\* raises.
C2_ExactlyOneResult ==
    /\ [](\A i \in 1..FairRecords : ResultsFor(i) <= 1)
    /\ \A i \in 1..FairRecords :
          (st[i] = "queued") ~> [](pc = "returned" /\ ResultsFor(i) = 1)

C2_Witness ==
    /\ pc = "returned"
    /\ Flight
    /\ Len(results) = 2
    /\ results[1].row = 2 /\ results[1].status = "failed"
    /\ results[2].row = 1 /\ results[2].status = "sent"

\* C3: the dispatcher returns one result per record handed to it: the records
\* with a destination plus the records without one, each of the latter as a
\* Skipped result; every result is Sent, Failed or Skipped.
C3_DispatchTotality ==
    pc = "returned" =>
        /\ Len(results) = Len(orders_data.rows)
        /\ \A i \in Rows :
              ~HasDestination(orders_data.rows[i]) =>
                  \E k \in 1..Len(results) :
                      /\ results[k].row = i
                      /\ TerminalState(results[k]) = "Skipped"
        /\ \A k \in 1..Len(results) :
              TerminalState(results[k]) \in {"Sent", "Failed", "Skipped"}

\* C4: a record whose destination is missing or the empty string gets a
\* Skipped result and the transport is never invoked for it.
C4_EmptyDestinationSkipped ==
    \A i \in Rows :
        ~HasDestination(orders_data.rows[i]) =>
            /\ attempts[i] = 0
            /\ st[i] \notin {"attempting", "backoff"}
            /\ pc = "returned" =>
                  \E k \in 1..Len(results) :
                      /\ results[k].row = i
                      /\ TerminalState(results[k]) = "Skipped"

C8_BoundedConcurrency == Cardinality(InFlight) <= 5

C8_Witness ==
    /\ Cardinality(InFlight) = 5
    /\ \E i \in Rows : st[i] = "queued"
    /\ \E i \in Rows : st[i] = "backoff"

\* C9: a step of a worker thread writes no shared object (the service's
\* statistics among them), and the result collection only grows by appends.
C9_WorkersShareOnlyResults ==
    [][/\ (\E i \in Slots : WorkerStep(i)) => email_stats' = email_stats
       /\ \/ results' = results
          \/ /\ Len(results') = Len(results) + 1
             /\ SubSeq(results', 1, Len(results)) = results]_vars

\* C10: on a non-empty well-formed batch the pipeline does not fail: it
\* returns a validation outcome covering every record and one dispatch result
\* per valid record, also when no record is valid or every send fails.
C10_PipelineCompletes ==
    entry = "main_steel" /\ data # <<>> =>
        /\ pc # "failed"
        /\ pc = "returned" =>
              /\ validation_stats.valid_records
                   + validation_stats.invalid_records = Len(data)
              /\ \A i \in Rows : ResultsFor(i) = 1

\* C11: in the list a dispatch returns the result keys are pairwise distinct
\* and results correspond one to one to the submitted tasks, also when
\* records share a destination address.
C11_ResultKeysDistinct ==
    pc = "returned" =>
        \* the field that identifies a result dict: the steel dict holds
        \* the address and nothing else of the order, the flight dict holds
        \* the PNR
        /\ LET ResultKey(r) == IF Steel THEN r.email ELSE r.PNR
           IN \A k, l \in 1..Len(results) :
                  k # l => ResultKey(results[k]) # ResultKey(results[l])
        /\ \A i \in Submitted : ResultsFor(i) = 1

\* C12: a task is submitted for a record if and only if the record passed
\* validation and its destination is non-empty and well-formed; no entry
\* point creates a task for a record that was not validated or whose
\* destination is empty or malformed.
C12_TaskIffValidAndAddressed ==
    \A i \in Rows :
        LET order == orders_data.rows[i]
            \* main_steel validates; a frame passed to the dispatcher
            \* directly is taken to be the caller's valid set;
            \* main_optimized runs no validator
            validated == /\ entry # "main_optimized"
                         /\ entry = "main_steel" =>
                               validate_single_order(order) = <<>>
            eligible == /\ validated
                        /\ HasDestination(order)
                        /\ MatchesEmailPattern(order.ContactEmail)
        IN /\ i \in Submitted => eligible
           /\ pc \in {"collect", "returned"} /\ eligible => i \in Submitted

\* the rows the error report of a run names
RowsReported(errors) == { errors[k].row : k \in 1..Len(errors) }

\* the rows of a frame from row i on that are not in `set`, in frame order
RECURSIVE RowsNotIn(_, _, _)
RowsNotIn(rows, i, set) ==
    IF i > Len(rows) THEN <<>>
    ELSE (IF i \in set THEN <<>> ELSE <<rows[i]>>)
         \o RowsNotIn(rows, i + 1, set)

C14_CountsOfLatestRun ==
    entry = "validate_steel_orders" /\ pc = "returned" =>
        /\ validation_stats.valid_records = Len(valid_orders)
        /\ validation_stats.invalid_records
             = Cardinality(RowsReported(validation_errors))
        /\ validation_stats.valid_records + validation_stats.invalid_records
             = validation_stats.total_records_validated
        /\ validation_stats.error_categories
             = Categorize([c \in Categories |-> 0],
                          [k \in 1..Len(validation_errors) |->
                              validation_errors[k].error])

\* C15: every record in the valid output of a run has no violation under
\* the validator's rules, and a record with a violation is not in the valid
\* output.
C15_ValidHasNoViolations ==
    pc = "returned" =>
        LET \* the violations the validator in use finds in a record
            Violations(record) ==
                IF entry = "validate_steel_orders"
                THEN validate_single_order(record)
                ELSE validate_single_record(record, 0)
        IN /\ \A k \in 1..Len(valid_orders) :
                 Violations(valid_orders[k]) = <<>>
           /\ \A i \in 1..Len(data) :
                 Violations(data[i]) # <<>> =>
                     \A k \in 1..Len(valid_orders) : valid_orders[k] # data[i]

C15_Witness ==
    /\ entry = "validate_reservations"
    /\ pc = "returned"
    /\ Len(data) = 2
    /\ valid_orders = <<data[2]>>
    /\ Len(validation_errors) >= 2

RECURSIVE Concat(_)
Concat(seqs) == IF seqs = <<>> THEN <<>> ELSE Head(seqs) \o Concat(Tail(seqs))

C17_ValidationNeverRaises == pc # "raised"

\* the position of the first row of the frame that carries the key
first_occurrence(rows, column, key) ==
    CHOOSE i \in 1..Len(rows) :
        /\ rows[i][column] = key
        /\ \A j \in 1..(i - 1) : rows[j][column] # key

\* C18: cleaning deduplicates by business key keeping the first occurrence
\* in input order: every surviving row is the first row of the input that
\* carries its key, no key survives twice, the count after deduplication is
\* the input count minus the number of duplicates, and the cleaner's
\* counters account for every dropped duplicate.
C18_KeepFirstAndCounted ==
    pc = "cleaned" =>
        LET key == IF UsesSteelCleaner THEN "OrderID" ELSE "PNR"
            cleaned_cells(row) ==
                IF UsesSteelCleaner THEN coerce(row)
                ELSE [row EXCEPT !.Fare = clean_fare(@)]
            keys == {data[i][key] : i \in 1..Len(data)}
            duplicates == Len(data) - Cardinality(keys)
            out == data_clean.rows
        IN /\ \A n \in 1..Len(out) :
                 LET i == first_occurrence(data, key, out[n][key])
                     cells == cleaned_cells(data[i])
                 IN \A c \in DOMAIN cells : out[n][c] = cells[c]
           /\ \A m, n \in 1..Len(out) : out[m][key] = out[n][key] => m = n
           /\ Len(drop_duplicates(data, key)) = Len(data) - duplicates
           /\ processing_stats.invalid_records >= duplicates

C20_CleaningPrecedesValidation ==
    [][(/\ pc' = "validated"
        /\ pc # "validated"
        /\ Len(valid_orders') + Len(validation_errors') > 0)
          => data_clean # NoFrame]_vars

\* C21: no silent loss end to end: when main_steel has cleaned and then
\* validated a batch, every record of the raw input is in exactly one
\* bucket: the valid output, the records with a reported violation, or the
\* duplicates that deduplication dropped.
C21_NoSilentLoss ==
    (entry = "main_steel" /\ pc = "validated") =>
        \A i \in 1..Len(data) :
            LET key == data[i].OrderID
                duplicate == first_occurrence(data, "OrderID", key) # i
                valid == \E n \in 1..Len(valid_orders) :
                             valid_orders[n].OrderID = key
                invalid == \E n \in RowsReported(validation_errors) :
                               data_clean.rows[n].OrderID = key
            IN IF duplicate THEN TRUE ELSE valid # invalid

\* C22: an order with weight 0 and all other fields valid gets exactly one
\* violation, the range violation on the weight (no cross-field weight or
\* pricing violation), and when main_steel has cleaned and validated the
\* batch the order is among the orders with a reported violation.
C22_ZeroWeightIsInvalid ==
    (entry = "main_steel" /\ pc = "validated") =>
        \A i \in 1..Len(data) :
            (/\ data[i].Weight = Float(0)
             /\ LET weighed == [data[i] EXCEPT !.Weight = GoodOrder.Weight]
                IN /\ ~validate_single_order_raises(weighed)
                   /\ validate_single_order(weighed) = <<>>
             /\ first_occurrence(data, "OrderID", data[i].OrderID) = i)
            => /\ validate_single_order(data[i])
                    = <<"Weight must be positive">>
               /\ \E n \in RowsReported(validation_errors) :
                      data_clean.rows[n].OrderID = data[i].OrderID

\* C23: for a positive unit price, weight and total price within range the
\* pricing rule reports the cross-field violation if and only if the total
\* price deviates from (weight / 1000) * unit price by more than 5 % of that
\* value: an exact 5 % deviation is not reported.
C23_PricingTolerance ==
    (entry = "validate_steel_orders" /\ pc = "returned") =>
        LET order == data[1]
            calculated == order.Weight.float * order.UnitPrice.float
            PricingFlagged ==
                \E k \in 1..Len(validation_errors) :
                    validation_errors[k].error
                      = "Total price differs from calculated"
        IN PricingFlagged
             <=> 20 * abs(order.TotalPrice.float * 1000 - calculated)
                   > calculated

\* C24: no division by zero: the divisor of every cross-field tolerance
\* check the validator performs on an order is strictly positive, and so
\* are the divisors (Weight, Volume) of the derived columns of every row the
\* cleaner returns; an order with a zero or missing divisor gets no
\* cross-check and no derived column.
C24_DivisorsPositive ==
    /\ (entry = "validate_steel_orders" /\ pc \in {"returned", "raised"}) =>
          LET order == data[1]
              thickness == num(order.Thickness)
              width == num(order.Width)
              length == num(order.Length)
              weight == num(order.Weight)
              unit_price == num(order.UnitPrice)
              total_price == num(order.TotalPrice)
              \* the divisors of the divisions validate_single_order
              \* performs: calculated_weight in validate_dimensions,
              \* calculated_total in validate_pricing
              divisors ==
                  (IF weight_cross_checked(thickness, width, length, weight)
                   THEN <<calculated_weight(thickness, width, length)>>
                   ELSE <<>>)
               \o (IF pricing_cross_checked(unit_price, total_price, weight)
                   THEN <<calculated_total(weight, unit_price)>> ELSE <<>>)
          IN \A k \in 1..Len(divisors) : divisors[k] > 0
    /\ (entry = "SteelDataProcessor" /\ pc = "cleaned") =>
          /\ \A n \in 1..Len(data_clean.rows) :
                /\ data_clean.rows[n].Weight.float > 0
                /\ data_clean.rows[n].Volume.float > 0
          /\ \A i \in 1..Len(data) :
                (first_occurrence(data, "OrderID", data[i].OrderID) = i
                   /\ ~positive(coerce(data[i]).Weight.float))
                => \A n \in 1..Len(data_clean.rows) :
                      data_clean.rows[n].OrderID # data[i].OrderID

\* the cleaner dropped an order of weight 0 and derived the columns of the
\* other order of the frame
C24_Witness ==
    /\ entry = "SteelDataProcessor"
    /\ pc = "cleaned"
    /\ Len(data) = 2
    /\ data[1].Weight = Float(0)
    /\ Len(data_clean.rows) = 1
    /\ data_clean.rows[1].Density.float > 0

\* C25: a file that lacks a column of the order schema makes the steel
\* cleaner fail fast: the call raises instead of returning a cleaned frame,
\* and the counters of the processor stay as they were before the call.
C25_MalformedFailsFast ==
    [][(/\ entry = "SteelDataProcessor"
        /\ pc = "loaded"
        /\ data # <<>>
        /\ columns(data) # DOMAIN GoodOrder)
          => /\ pc' = "failed"
             /\ processing_stats' = processing_stats
             /\ data_clean' = data_clean]_vars

\* C26: validation preserves input order within each partition: the valid
\* output lists the valid records in the order of the input, and the
\* reported violations are listed in the input order of their records.
C26_OrderPreserved ==
    pc = "returned" =>
        /\ \E f \in [1..Len(valid_orders) -> 1..Len(data)] :
              /\ \A n \in 1..Len(valid_orders) : data[f[n]] = valid_orders[n]
              /\ \A m, n \in 1..Len(valid_orders) : m < n => f[m] < f[n]
              /\ \A n \in 1..Len(valid_orders) :
                    f[n] \notin RowsReported(validation_errors)
        /\ \A j, k \in 1..Len(validation_errors) :
              j < k => validation_errors[j].row <= validation_errors[k].row

\* two different valid orders came back in the order they went in
C26_Witness ==
    /\ entry = "validate_steel_orders"
    /\ pc = "returned"
    /\ Len(data) = 2
    /\ data[1] # data[2]
    /\ valid_orders = data

\* C28: a backoff wait begins only when an attempt of the task has just
\* failed and another attempt is left (failure k < 3), and it ends only in
\* the next attempt of the same task; the wait is bounded and the wait
\* after the second failure is twice the wait after the first.
C28_BackoffDiscipline ==
    [][\A i \in Slots :
         /\ (st'[i] = "backoff" /\ st[i] # "backoff") =>
               /\ st[i] = "attempting"
               /\ attempts'[i] = attempts[i] + 1
               /\ retry_count'[i] = retry_count[i] + 1
               /\ retry_count'[i] < max_retries
               /\ backoff_wait(retry_count'[i]) <= 10
               /\ retry_count'[i] > 1 =>
                     backoff_wait(retry_count'[i])
                       = 2 * backoff_wait(retry_count'[i] - 1)
         /\ (st[i] = "backoff" /\ st'[i] # "backoff") =>
               st'[i] = "attempting"
      ]_vars

\* C29: after any sequence of send_order_confirmations calls on one
\* EmailService, successful_emails + failed_emails equals total_emails_sent,
\* so neither counter exceeds max(total_emails_sent, 1) and the rates of
\* get_email_stats lie between 0 and 100.
C29_EmailStatsConsistent ==
    (entry = "send_order_confirmations" /\ pc = "returned") =>
        LET total == email_stats.total_emails_sent
            divisor == IF total > 1 THEN total ELSE 1
        IN /\ email_stats.successful_emails + email_stats.failed_emails
                = total
           /\ email_stats.successful_emails * 100 <= 100 * divisor
           /\ email_stats.failed_emails * 100 <= 100 * divisor

\* C27: when the first read of the file raises UnicodeDecodeError,
\* load_data reads the file again with a fallback encoding, makes exactly
\* two reads and returns the frame of the second read.
C27_LoadRecoversFromEncoding ==
    [][(pc = "start" /\ file.encoding # "utf-8") =>
          /\ pc' = "loaded"
          /\ data' = file.rows
          /\ call_count' = 2]_vars

\* C30: on a frame whose PNRs are pairwise distinct clean_data_optimized
\* and process_reservations keep the same PNRs with the same numeric fare,
\* fares written with '$' and thousands separators included.
C30_CleanersEquivalent ==
    (/\ pc = "processed"
     /\ \A m, n \in 1..Len(data) : data[m].PNR = data[n].PNR => m = n)
    => LET \* the PNR and the numeric fare of every record of a frame
           Fares(rows) == { <<rows[n].PNR, rows[n].Fare>> : n \in 1..Len(rows) }
       IN Fares(data_clean.rows) = Fares(processed_records)
====
